---------------------------- MODULE Spec2Model ----------------------------
(***************************************************************************)
(* Model of the photonic state engine (Key.hpp, State.hpp) and of the     *)
(* trivial overlap function of simAux.hpp.                                 *)
(*                                                                         *)
(* Amplitudes (Val) are modelled exactly, as elements of the field         *)
(* Q(sqrt2, sqrt3): the tuple <<a, b, c, e, q>> stands for                 *)
(* (a + b*sqrt2 + c*sqrt3 + e*sqrt6) / q with q > 0 and the five integers  *)
(* coprime, so equal numbers are equal tuples.  Every amplitude the        *)
(* bounded model produces is either 0 or far larger than the tolerance     *)
(* (1e-9 by default), hence "std::abs(x) > tol" is modelled as x # Zero.   *)
(***************************************************************************)
EXTENDS Integers, Sequences, FiniteSets, TLC

(***************************************************************************)
(* Bounds of the model                                                     *)
(***************************************************************************)
MaxMode == 1
MaxId == 1
MaxPhotons == 2
MaxOps == 4
MaxTerms == 2
MaxPostOps == 2
MaxScenario == 3
MaxFileLen == 3
MaxRanks == 2

-----------------------------------------------------------------------------
(***************************************************************************)
(* Exact arithmetic in Q(sqrt2, sqrt3)                                      *)
(***************************************************************************)
AbsInt(n) == IF n < 0 THEN -n ELSE n

RECURSIVE Gcd(_, _)
Gcd(m, n) == IF n = 0 THEN AbsInt(m) ELSE Gcd(n, m % n)

\* the common divisor of the five integers, with the sign of the denominator
SignedGcd(a, b, c, e, q) ==
    (IF q < 0 THEN -1 ELSE 1)
        * Gcd(Gcd(Gcd(Gcd(AbsInt(a), AbsInt(b)), AbsInt(c)), AbsInt(e)), AbsInt(q))

Reduce5(a, b, c, e, q, g) == <<a \div g, b \div g, c \div g, e \div g, q \div g>>

Norm5(a, b, c, e, q) == Reduce5(a, b, c, e, q, SignedGcd(a, b, c, e, q))

FromInt(n) == <<n, 0, 0, 0, 1>>
Zero == FromInt(0)
One == FromInt(1)
MinusOne == FromInt(-1)
Half == <<1, 0, 0, 0, 2>>
InvSqrt2 == <<0, 1, 0, 0, 2>>
MinusInvSqrt2 == <<0, -1, 0, 0, 2>>

Add(x, y) ==
    Norm5(x[1]*y[5] + y[1]*x[5], x[2]*y[5] + y[2]*x[5], x[3]*y[5] + y[3]*x[5],
          x[4]*y[5] + y[4]*x[5], x[5]*y[5])

Neg(x) == <<-x[1], -x[2], -x[3], -x[4], x[5]>>

Mul(x, y) ==
    Norm5(x[1]*y[1] + 2*x[2]*y[2] + 3*x[3]*y[3] + 6*x[4]*y[4],
          x[1]*y[2] + x[2]*y[1] + 3*x[3]*y[4] + 3*x[4]*y[3],
          x[1]*y[3] + x[3]*y[1] + 2*x[2]*y[4] + 2*x[4]*y[2],
          x[1]*y[4] + x[4]*y[1] + x[2]*y[3] + x[3]*y[2],
          x[5]*y[5])

\* std::pow(x, n) for an integer n >= 0; pow(0, 0) = 1
RECURSIVE Pow(_, _)
Pow(x, n) == IF n = 0 THEN One ELSE Mul(x, Pow(x, n - 1))

IsRational(x) == x[2] = 0 /\ x[3] = 0 /\ x[4] = 0

\* 1/x for a number with a single non-zero coefficient: r * sqrt(k), k in {1,2,3,6}
Inv(x) ==
    IF x[1] # 0 THEN Norm5(x[5], 0, 0, 0, x[1])
    ELSE IF x[2] # 0 THEN Norm5(0, x[5], 0, 0, 2*x[2])
    ELSE IF x[3] # 0 THEN Norm5(0, 0, x[5], 0, 3*x[3])
    ELSE Norm5(0, 0, 0, x[5], 6*x[4])

Div(x, y) == Mul(x, Inv(y))

\* std::abs of a rational
Abs(x) == <<AbsInt(x[1]), 0, 0, 0, x[5]>>

\* |x|^2 of a real amplitude
AbsSq(x) == Mul(x, x)

IsSquare(m) == \E s \in 0..m : s*s = m
ISqrt(m) == CHOOSE s \in 0..m : s*s = m

\* the k in {1,2,3,6} with m / k a perfect square, 0 if there is none
Radical(m) ==
    IF m = 0 THEN 1
    ELSE IF IsSquare(m) THEN 1
    ELSE IF m % 2 = 0 /\ IsSquare(m \div 2) THEN 2
    ELSE IF m % 3 = 0 /\ IsSquare(m \div 3) THEN 3
    ELSE IF m % 6 = 0 /\ IsSquare(m \div 6) THEN 6
    ELSE 0

\* sqrt(p/q) = sqrt(p*q)/q lies in the field
HasSqrt(x) == IsRational(x) /\ x[1] >= 0 /\ Radical(x[1]*x[5]) # 0

\* std::sqrt of a non-negative rational whose root lies in the field
\* s * sqrt(k) / q for k in {1,2,3,6}
RootAt(k, s, q) ==
    Norm5(IF k = 1 THEN s ELSE 0, IF k = 2 THEN s ELSE 0,
          IF k = 3 THEN s ELSE 0, IF k = 6 THEN s ELSE 0, q)

SqrtRad(m, k, q) == RootAt(k, ISqrt(m \div k), q)

Sqrt(x) == SqrtRad(x[1]*x[5], Radical(x[1]*x[5]), x[5])

-----------------------------------------------------------------------------
(***************************************************************************)
(* KeyAux.hpp                                                              *)
(***************************************************************************)
FACUT12 == <<1, 1, 2, 6, 24, 120, 720, 5040, 40320, 362880, 3628800, 39916800, 479001600>>

RECURSIVE facut(_)
facut(i) == IF i <= 12 THEN FACUT12[i + 1] ELSE i * facut(i - 1)

binomialCoeff(n, k) == facut(n) \div (facut(k) * facut(n - k))

-----------------------------------------------------------------------------
(***************************************************************************)
(* Generic helpers for the sorted flat_map containers.  A Key is a         *)
(* function from pairs <<spatial mode, distinguishability mode>> to        *)
(* occupation numbers; a state-like map (SD / Par) is a function from Keys *)
(* to amplitudes.  Iteration follows the containers' sorted order.         *)
(***************************************************************************)
FoldSeq(Op(_, _), base, seq) ==
    LET F[i \in 0..Len(seq)] == IF i = 0 THEN base ELSE Op(F[i - 1], seq[i])
    IN  F[Len(seq)]

\* std::pair<Int, Int> operator<
PairLess(p, q) == p[1] < q[1] \/ (p[1] = q[1] /\ p[2] < q[2])

RECURSIVE SortedPairs(_)
SortedPairs(P) ==
    IF P = {} THEN <<>>
    ELSE LET lo == CHOOSE p \in P : \A q \in P \ {p} : PairLess(p, q)
         IN  <<lo>> \o SortedPairs(P \ {lo})

\* the entries <<mode, dmode, occupation>> of a Key in iteration order
EntriesIn(k, sp) == [i \in 1..Len(sp) |-> <<sp[i][1], sp[i][2], k[sp[i]]>>]

Entries(k) == EntriesIn(k, SortedPairs(DOMAIN k))

EntryLess(x, y) ==
    \/ x[1] < y[1]
    \/ x[1] = y[1] /\ x[2] < y[2]
    \/ x[1] = y[1] /\ x[2] = y[2] /\ x[3] < y[3]

\* flat_map operator< : lexicographic comparison of the entry sequences
SeqLess(e1, e2) ==
    LET n  == IF Len(e1) < Len(e2) THEN Len(e1) ELSE Len(e2)
        diff == {i \in 1..n : e1[i] # e2[i]}
    IN  IF diff = {} THEN Len(e1) < Len(e2)
        ELSE LET i == CHOOSE j \in diff : \A h \in diff : j <= h
             IN  EntryLess(e1[i], e2[i])

KeyLess(k1, k2) == SeqLess(Entries(k1), Entries(k2))

RECURSIVE SortedKeys(_)
SortedKeys(Ks) ==
    IF Ks = {} THEN <<>>
    ELSE LET lo == CHOOSE k \in Ks : \A j \in Ks \ {k} : KeyLess(k, j)
         IN  <<lo>> \o SortedKeys(Ks \ {lo})

\* the terms <<Key, amplitude>> of a state-like map in iteration order
TermsIn(M, sk) == [i \in 1..Len(sk) |-> <<sk[i], M[sk[i]]>>]

Terms(M) == TermsIn(M, SortedKeys(DOMAIN M))

EmptyMap == [k \in {} |-> Zero]

\* flat_map::insert_or_assign
InsertOrAssign(M, k, v) == [j \in DOMAIN M \cup {k} |-> IF j = k THEN v ELSE M[j]]

\* flat_map::insert / emplace without the follow-up: an existing entry stays
Insert(M, k, v) == IF k \in DOMAIN M THEN M ELSE InsertOrAssign(M, k, v)

\* emplace, and "+=" onto the existing entry when the key was present (amplitudes)
EmplaceAdd(M, k, v) ==
    IF k \in DOMAIN M THEN [M EXCEPT ![k] = Add(@, v)] ELSE InsertOrAssign(M, k, v)

-----------------------------------------------------------------------------
(***************************************************************************)
(* Key.hpp                                                                 *)
(***************************************************************************)
EmptyKey == [p \in {} |-> 0]

\* Key(a, b, c)
KeyOf(a, b, c) == [p \in {<<a, b>>} |-> c]

\* Key::add
KeyAdd(k, p) ==
    [x \in DOMAIN k \cup DOMAIN p |->
        IF x \in DOMAIN k /\ x \in DOMAIN p THEN k[x] + p[x]
        ELSE IF x \in DOMAIN k THEN k[x] ELSE p[x]]

\* Key::clean
KeyClean(k) == [x \in {y \in DOMAIN k : k[y] > 0} |-> k[x]]

\* product of facut(occupation) over a set of entries
RECURSIVE FacProd(_, _)
FacProd(k, P) ==
    IF P = {} THEN 1
    ELSE LET x == CHOOSE y \in P : TRUE
         IN  facut(k[x]) * FacProd(k, P \ {x})

\* Key::factor(a, b)
factor2(k, a, b) == Sqrt(FromInt(FacProd(k, {x \in DOMAIN k : x[1] = a \/ x[1] = b})))

\* Key::factor()
factor(k) == Sqrt(FromInt(FacProd(k, DOMAIN k)))

\* Key::addEnd
addEnd(k, a, b, c) == InsertOrAssign(k, <<a, b>>, c)

\* ApplyPass that forgets the entry outside modes
ApplyPassSkip(Ret, m, d, n) == Ret

\* Key::apply(U, modes, tol): the branch for an entry outside modes
ApplyPass(Ret, m, d, n) ==
    FoldSeq(LAMBDA acc, t : InsertOrAssign(acc, InsertOrAssign(t[1], <<m, d>>, n), t[2]),
            EmptyMap, Terms(Ret))

\* ApplyExpand with every entry expanded as if it sat at modes[0] (i fixed to 0)
ApplyExpandFirstRow(U, modes, m, d, n) ==
    LET amp(j) == Div(Mul(Mul(Pow(U[1], j), FromInt(binomialCoeff(n, j))),
                          Pow(U[3], n - j)),
                      Sqrt(FromInt(facut(n))))
        K(j) == KeyClean(InsertOrAssign(KeyOf(modes[1], d, j), <<modes[2], d>>, n - j))
    IN  FoldSeq(LAMBDA acc, j : InsertOrAssign(acc, K(j), amp(j)),
                EmptyMap, [j \in 1..(n + 1) |-> j - 1])

\* ApplyExpand reading U by rows: U[2i] and U[2i+1] instead of U[i] and U[i+2]
ApplyExpandTransposed(U, modes, m, d, n) ==
    LET i == IF m = modes[1] THEN 0 ELSE 1
        amp(j) == Div(Mul(Mul(Pow(U[2 * i + 1], j), FromInt(binomialCoeff(n, j))),
                          Pow(U[2 * i + 2], n - j)),
                      Sqrt(FromInt(facut(n))))
        K(j) == KeyClean(InsertOrAssign(KeyOf(modes[1], d, j), <<modes[2], d>>, n - j))
    IN  FoldSeq(LAMBDA acc, j : InsertOrAssign(acc, K(j), amp(j)),
                EmptyMap, [j \in 1..(n + 1) |-> j - 1])

\* ApplyExpand with the loop started at j = 1 instead of j = 0
ApplyExpandSkipZero(U, modes, m, d, n) ==
    LET i == IF m = modes[1] THEN 0 ELSE 1
        amp(j) == Div(Mul(Mul(Pow(U[i + 1], j), FromInt(binomialCoeff(n, j))),
                          Pow(U[i + 3], n - j)),
                      Sqrt(FromInt(facut(n))))
        K(j) == KeyClean(InsertOrAssign(KeyOf(modes[1], d, j), <<modes[2], d>>, n - j))
    IN  FoldSeq(LAMBDA acc, j : InsertOrAssign(acc, K(j), amp(j)),
                EmptyMap, [j \in 1..n |-> j])

\* Key::apply(U, modes, tol): the binomial expansion of one entry at modes[0] or modes[1]
ApplyExpand(U, modes, m, d, n) ==
    LET i == IF m = modes[1] THEN 0 ELSE 1
        amp(j) == Div(Mul(Mul(Pow(U[i + 1], j), FromInt(binomialCoeff(n, j))),
                          Pow(U[i + 3], n - j)),
                      Sqrt(FromInt(facut(n))))
        K(j) == KeyClean(InsertOrAssign(KeyOf(modes[1], d, j), <<modes[2], d>>, n - j))
    IN  FoldSeq(LAMBDA acc, j : InsertOrAssign(acc, K(j), amp(j)),
                EmptyMap, [j \in 1..(n + 1) |-> j - 1])

\* Key::apply(U, modes, tol): the product of the expansion with the branches so far
ApplyConvolve(RetIter, Ret) ==
    FoldSeq(LAMBDA acc, r :
                FoldSeq(LAMBDA acc2, t : EmplaceAdd(acc2, KeyAdd(r[1], t[1]), Mul(r[2], t[2])),
                        acc, Terms(Ret)),
            EmptyMap, Terms(RetIter))

\* Key::apply(U, modes, tol)
KeyApply(k, U, modes) ==
    LET a == modes[1]
        b == modes[2]
        step(Ret, e) ==
            IF e[1] # a /\ e[1] # b THEN ApplyPass(Ret, e[1], e[2], e[3])
            ELSE ApplyConvolve(ApplyExpand(U, modes, e[1], e[2], e[3]), Ret)
        Ret == FoldSeq(step, [j \in {EmptyKey} |-> One], Entries(k))
    IN  FoldSeq(LAMBDA acc, t :
                    IF t[2] # Zero
                    THEN InsertOrAssign(acc, t[1], Mul(t[2], factor2(t[1], a, b)))
                    ELSE acc,
                EmptyMap, Terms(Ret))

\* Key::apply(U, mode): the factor U^(occupation of mode)
KeyPhase(k, U, mode) ==
    Pow(U, FoldSeq(LAMBDA a, e : IF e[1] = mode THEN a + e[3] ELSE a, 0, Entries(k)))

\* KeySwap that moves the entries at a to b and leaves those at b
KeySwapOneWay(k, a, b) ==
    FoldSeq(LAMBDA par, e : Insert(par, <<IF e[1] = a THEN b ELSE e[1], e[2]>>, e[3]),
            EmptyKey, Entries(k))

\* Key::swap
KeySwap(k, a, b) ==
    FoldSeq(LAMBDA par, e :
                Insert(par, <<IF e[1] = a THEN b ELSE IF e[1] = b THEN a ELSE e[1], e[2]>>, e[3]),
            EmptyKey, Entries(k))

\* FindIndex counting the positions from 1
FindIndexFromOne(modes, m) ==
    IF \E i \in 1..Len(modes) : modes[i] = m
    THEN CHOOSE i \in 1..Len(modes) : modes[i] = m /\ \A h \in 1..(i - 1) : modes[h] # m
    ELSE Len(modes)

\* j = s - (modes.cend() - std::find(...)): position of m in modes, s when absent
FindIndex(modes, m) ==
    IF \E i \in 1..Len(modes) : modes[i] = m
    THEN (CHOOSE i \in 1..Len(modes) : modes[i] = m /\ \A h \in 1..(i - 1) : modes[h] # m) - 1
    ELSE Len(modes)

\* Key::loss: the pair <<R, total, maxLM>> after the loop over the entries
LossLoop(k, modes, lossMode, maxLM) ==
    FoldSeq(LAMBDA acc, e :
                LET j == FindIndex(modes, e[1])
                IN  IF j # Len(modes) /\ e[3] > 0
                    THEN LET k2 == InsertOrAssign(InsertOrAssign(k, <<e[1], e[2]>>, e[3] - 1),
                                                  <<lossMode + j, e[2]>>, 1)
                         IN  <<InsertOrAssign(acc[1], k2, Sqrt(FromInt(e[3]))),
                               acc[2] + e[3],
                               IF lossMode + j >= acc[3] THEN lossMode + j + 1 ELSE acc[3]>>
                    ELSE acc,
            <<EmptyMap, 0, maxLM>>, Entries(k))

\* LossResult that returns the empty map when no photon was lost
LossResultNoIdentity(k, r) ==
    IF r[2] = 0
    THEN [R |-> r[1], maxLM |-> r[3]]
    ELSE [R |-> [j \in DOMAIN r[1] |-> Div(r[1][j], Sqrt(FromInt(r[2])))],
          maxLM |-> r[3]]


\* LossResult without the division by the square root of the photons in modes
LossResultUnscaled(k, r) ==
    IF r[2] = 0
    THEN [R |-> InsertOrAssign(r[1], k, One), maxLM |-> r[3]]
    ELSE [R |-> r[1], maxLM |-> r[3]]

\* Key::loss: the branch for no photon lost, else the division by sqrt(total)
LossResult(k, r) ==
    IF r[2] = 0
    THEN [R |-> InsertOrAssign(r[1], k, One), maxLM |-> r[3]]
    ELSE [R |-> [j \in DOMAIN r[1] |-> Div(r[1][j], Sqrt(FromInt(r[2])))],
          maxLM |-> r[3]]

\* Key::loss: the returned map R and the updated maxLM
KeyLoss(k, modes, lossMode, maxLM) == LossResult(k, LossLoop(k, modes, lossMode, maxLM))

\* emplace, and "+=" onto the existing entry when the pair was present (occupations)
EmplaceAddCount(par, q, n) ==
    IF q \in DOMAIN par THEN [par EXCEPT ![q] = @ + n] ELSE InsertOrAssign(par, q, n)

\* Key::overlapping: col, the occupation per spatial mode named in ref
OverlapCol(k, ref) ==
    FoldSeq(LAMBDA col, e : IF e[1] \in DOMAIN ref THEN EmplaceAddCount(col, e[1], e[3]) ELSE col,
            [m \in {} |-> 0], Entries(k))

\* OverlapMatches that passes a mode of ref the key has no entry at
OverlapMatchesPresent(col, ref) == \A m \in DOMAIN ref : m \in DOMAIN col => col[m] = ref[m]

\* the comparison loop of Key::overlapping
OverlapMatches(col, ref) ==
    \A m \in DOMAIN ref : IF m \in DOMAIN col THEN col[m] = ref[m] ELSE ref[m] = 0

\* Key::overlapping
overlapping(k, ref) == OverlapMatches(OverlapCol(k, ref), ref)

\* std::vector::erase at the position std::find returns
EraseFirst(v, m) ==
    IF \E i \in 1..Len(v) : v[i] = m
    THEN [i \in 1..(Len(v) - 1) |-> IF i < FindIndex(v, m) + 1 THEN v[i] ELSE v[i + 1]]
    ELSE v

\* Key::notEmpty: Msub after the loop over the entries, for one group M
GroupRest(k, M) ==
    FoldSeq(LAMBDA Msub, e : IF e[3] > 0 THEN EraseFirst(Msub, e[1]) ELSE Msub, M, Entries(k))

\* Key::notEmpty: the loop over the entries returns true for the group M
GroupHit(k, M) == DOMAIN k # {} /\ GroupRest(k, M) = <<>>

\* Key::notEmpty
KeyNotEmpty(k, allModes) ==
    IF \E i \in 1..Len(allModes) : GroupHit(k, allModes[i]) THEN TRUE ELSE Len(allModes) = 0

\* CollapsePar that overwrites the occupation of an entry already in p
CollapseParAssign(k, f) ==
    FoldSeq(LAMBDA par, e : InsertOrAssign(par, <<e[1], f[e[2]]>>, e[3]), EmptyKey, Entries(k))

\* Key::collapse: the relabelled map p
CollapsePar(k, f) ==
    FoldSeq(LAMBDA par, e : EmplaceAddCount(par, <<e[1], f[e[2]]>>, e[3]), EmptyKey, Entries(k))

\* CollapseAmp without the division by the factor before the mapping
CollapseAmpNoPre(amp, pre, p) == Mul(amp, factor(p))

\* Key::collapse: amp *= factor()/pre
CollapseAmp(amp, pre, p) == Mul(amp, Div(factor(p), pre))

CollapseResult(amp, pre, p) == [key |-> p, amp |-> CollapseAmp(amp, pre, p)]

\* Key::collapse: the new key and the new amplitude
KeyCollapse(k, f, amp) == CollapseResult(amp, factor(k), CollapsePar(k, f))

\* Key::sameDModeDel: the loop body for the entry e; stop is the early return false
SameDModeStep(acc, e, m) ==
    IF acc.stop THEN acc
    ELSE IF (\E i \in 1..Len(m) : m[i] = e[1]) /\ e[3] # 0
    THEN IF acc.dmode = -1 THEN [acc EXCEPT !.dmode = e[2], !.founds = @ + 1]
         ELSE IF e[2] # acc.dmode THEN [acc EXCEPT !.stop = TRUE]
         ELSE [acc EXCEPT !.founds = @ + 1]
    ELSE IF e[3] # 0 THEN [acc EXCEPT !.p = Insert(@, <<e[1], e[2]>>, e[3])]
    ELSE acc

\* Key::sameDModeDel: the loop over the entries
SameDModeLoop(k, m) ==
    FoldSeq(LAMBDA acc, e : SameDModeStep(acc, e, m),
            [p |-> EmptyKey, dmode |-> -1, founds |-> 0, stop |-> FALSE], Entries(k))

\* SameDModeResult that asks for one occupied mode only
SameDModeResultAny(acc, k, m) ==
    IF acc.stop THEN [ok |-> FALSE, key |-> k]
    ELSE [ok |-> acc.founds >= 1 \/ Len(m) = 0, key |-> acc.p]

\* Key::sameDModeDel: the returned value and the key afterwards
SameDModeResult(acc, k, m) ==
    IF acc.stop THEN [ok |-> FALSE, key |-> k]
    ELSE [ok |-> acc.founds = Len(m), key |-> acc.p]

\* Key::sameDModeDel
KeySameDModeDel(k, m) == SameDModeResult(SameDModeLoop(k, m), k, m)

-----------------------------------------------------------------------------
(***************************************************************************)
(* simAux.hpp, StateAux.hpp: wave-function descriptors and overlaps.       *)
(* A descriptor is the vector <<identifier, overlap>>.                     *)
(***************************************************************************)
trivOvlF(V, W) == IF V[1] # W[1] THEN V[2] ELSE One

get_ovlp(V, W) == trivOvlF(V, W)

\* conj<float> is the identity
ovlpH(b, wf, wvs) ==
    FoldSeq(LAMBDA res, i : Add(res, Mul(b[i], get_ovlp(wvs[i], wf))),
            Zero, [i \in 1..Len(b) |-> i])

ovlp(b, c, wvs) ==
    FoldSeq(LAMBDA res, i : Add(res, Mul(c[i], ovlpH(b, wvs[i], wvs))),
            Zero, [i \in 1..Len(c) |-> i])

-----------------------------------------------------------------------------
(***************************************************************************)
(* State.hpp                                                               *)
(***************************************************************************)
\* StateAdd that overwrites the amplitude of a key already present
StateAddAssign(M, p, v) ==
    FoldSeq(LAMBDA acc, t : InsertOrAssign(acc, t[1], Mul(v, t[2])), M, Terms(p))

\* State::add(p, v)
StateAdd(M, p, v) ==
    FoldSeq(LAMBDA acc, t : EmplaceAdd(acc, t[1], Mul(v, t[2])), M, Terms(p))

\* StateClean that removes nothing
StateCleanKeepAll(M) == M

\* State::clean
StateClean(M) == [k \in {j \in DOMAIN M : M[j] # Zero} |-> M[k]]

\* State::norm before the final square root: the sum of |amplitude|^2
NormSq(M) == FoldSeq(LAMBDA r, t : Add(r, AbsSq(t[2])), Zero, Terms(M))

\* GramSchmidt with the candidate vector seeded with ones instead of zeros
GramSchmidtOnes(wf, wvs, bas) ==
    FoldSeq(LAMBDA acc, i :
                LET ov == Neg(ovlpH(bas[i], wf, wvs))
                IN  [bNew |-> [j \in 1..Len(acc.bNew) |->
                                  IF j <= Len(bas[i])
                                  THEN Add(acc.bNew[j], Mul(bas[i][j], ov))
                                  ELSE acc.bNew[j]],
                     decomp |-> Append(acc.decomp, Neg(ov))],
            [bNew |-> [j \in 1..Len(bas) |-> One], decomp |-> <<>>],
            [i \in 1..Len(bas) |-> i])

\* State::addBasisElem: the candidate vector before normalisation and the
\* first part of decomp
GramSchmidt(wf, wvs, bas) ==
    FoldSeq(LAMBDA acc, i :
                LET ov == Neg(ovlpH(bas[i], wf, wvs))
                IN  [bNew |-> [j \in 1..Len(acc.bNew) |->
                                  IF j <= Len(bas[i])
                                  THEN Add(acc.bNew[j], Mul(bas[i][j], ov))
                                  ELSE acc.bNew[j]],
                     decomp |-> Append(acc.decomp, Neg(ov))],
            [bNew |-> [j \in 1..Len(bas) |-> Zero], decomp |-> <<>>],
            [i \in 1..Len(bas) |-> i])

\* State::addBasisElem: the candidate vector with its own component set to 1
B1(wf, wvs, bas) == Append(GramSchmidt(wf, wvs, bas).bNew, One)

NormOf(b1, wvs2) == Abs(ovlp(b1, b1, wvs2))

\* State::addBasisElem: |normC|
BasisNorm(wf, wvs, bas) == NormOf(B1(wf, wvs, bas), Append(wvs, wf))

\* a vector divided by std::sqrt(n)
Scaled(v, n) == [i \in 1..Len(v) |-> Div(v[i], Sqrt(n))]

\* the sum of |a|^2 over decomp
SumSq(dec) == FoldSeq(LAMBDA r, a : Add(r, AbsSq(a)), Zero, dec)

\* decomp with the overlap of the new basis element appended
Decomp(wf, wvs, bas, bNew) ==
    Append(GramSchmidt(wf, wvs, bas).decomp, ovlpH(bNew, wf, Append(wvs, wf)))

\* decomp divided by its norm unless the norm is 0
DecompNormed(dec, norm2) == IF norm2 # Zero THEN Scaled(dec, norm2) ELSE dec

BasisElemResult(wf, wvs, bas, bNew, dec) ==
    [waves  |-> Append(wvs, wf),
     basis  |-> Append(bas, bNew),
     decomp |-> DecompNormed(dec, SumSq(dec))]

BasisElemNew(wf, wvs, bas, bNew) ==
    BasisElemResult(wf, wvs, bas, bNew, Decomp(wf, wvs, bas, bNew))

\* State::addBasisElem: the new waves, the new basis and the returned decomp
addBasisElem(wf, wvs, bas) ==
    BasisElemNew(wf, wvs, bas, Scaled(B1(wf, wvs, bas), BasisNorm(wf, wvs, bas)))

RepresentableNorm(wf, wvs, bas, norm) ==
    /\ IsRational(norm) /\ norm # Zero /\ HasSqrt(norm)
    /\ HasSqrt(SumSq(Decomp(wf, wvs, bas, Scaled(B1(wf, wvs, bas), norm))))

\* the square roots of addBasisElem lie in Q(sqrt2, sqrt3) and are non-zero
BasisRepresentable(wf, wvs, bas) ==
    RepresentableNorm(wf, wvs, bas, BasisNorm(wf, wvs, bas))

\* Key::incr(mode, index, num): called by State::addPhoton
incr(k, a, b, c) ==
    InsertOrAssign(k, <<a, b>>, (IF <<a, b>> \in DOMAIN k THEN k[<<a, b>>] ELSE 0) + c)

\* State::addPhoton: index of the first stored descriptor with |overlap| = 1, -1 if none
MatchIndex(wf, wvs) ==
    LET hit == {i \in 1..Len(wvs) : Abs(get_ovlp(wf, wvs[i])) = One}
    IN  IF hit = {} THEN -1 ELSE (CHOOSE i \in hit : \A h \in hit : i <= h) - 1

\* State::addPhoton: the branch for a descriptor that matches none stored
addPhotonNew(st, mode, num, lm, r) ==
    [S |-> FoldSeq(LAMBDA SNew, t :
                       FoldSeq(LAMBDA SN2, i :
                                   Insert(SN2, addEnd(t[1], mode, i - 1, num),
                                          Mul(t[2], r.decomp[i])),
                               SNew, [i \in 1..Len(r.decomp) |-> i]),
                   EmptyMap, Terms(st.S)),
     waves |-> r.waves,
     basis |-> r.basis,
     lossMode |-> lm]

\* State::addPhoton on a record [S, waves, basis, lossMode]
addPhoton(st, wf, mode, num) ==
    LET lm == IF mode >= st.lossMode THEN mode + 1 ELSE st.lossMode
        index == MatchIndex(wf, st.waves)
    IN  IF Cardinality(DOMAIN st.S) = 0
        THEN [S |-> InsertOrAssign(st.S, KeyOf(mode, 0, num), One),
              waves |-> Append(st.waves, wf),
              basis |-> Append(st.basis, <<One>>),
              lossMode |-> lm]
        ELSE IF index # -1
        THEN [S |-> FoldSeq(LAMBDA SNew, t : Insert(SNew, incr(t[1], mode, index, num), t[2]),
                            EmptyMap, Terms(st.S)),
              waves |-> st.waves,
              basis |-> st.basis,
              lossMode |-> lm]
        ELSE addPhotonNew(st, mode, num, lm, addBasisElem(wf, st.waves, st.basis))

\* State::apply(U, modes)
StateApply(M, U, modes) ==
    StateClean(FoldSeq(LAMBDA acc, t : StateAdd(acc, KeyApply(t[1], U, modes), t[2]),
                       EmptyMap, Terms(M)))

\* State::apply(U, mode)
StatePhase(M, U, mode) == [k \in DOMAIN M |-> Mul(M[k], KeyPhase(k, U, mode))]

\* State::swap
StateSwap(M, a, b) ==
    FoldSeq(LAMBDA par, t : Insert(par, KeySwap(t[1], a, b), t[2]), EmptyMap, Terms(M))

\* State::loss: one term's branches added to the accumulated map
LossStep(acc, v, r) == [S |-> StateAdd(acc.S, r.R, v), maxLM |-> r.maxLM]

\* State::loss: the accumulated map and maxLM after the loop over the terms
StateLossLoop(M, modes, lossMode) ==
    FoldSeq(LAMBDA acc, t : LossStep(acc, t[2], KeyLoss(t[1], modes, lossMode, acc.maxLM)),
            [S |-> EmptyMap, maxLM |-> 0], Terms(M))

\* LossInstall that leaves lossMode as it was
LossInstallKeepFloor(st, r) ==
    [S |-> StateClean(r.S),
     waves |-> st.waves,
     basis |-> st.basis,
     lossMode |-> st.lossMode]

\* State::loss: the lossMode update and clean()
LossInstall(st, r) ==
    [S |-> StateClean(r.S),
     waves |-> st.waves,
     basis |-> st.basis,
     lossMode |-> IF r.maxLM > st.lossMode THEN r.maxLM ELSE st.lossMode]

\* State::loss on a record [S, waves, basis, lossMode]
StateLoss(st, modes) == LossInstall(st, StateLossLoop(st.S, modes, st.lossMode))

\* State::overlapWithFilter: some pattern of fref overlaps k
\* AnyOverlapping that looks at the first pattern only
AnyOverlappingFirst(k, fref) == Len(fref) >= 1 /\ overlapping(k, fref[1])

\* the loop over fref (over MVec) with its overlapping test
AnyOverlapping(k, fref) == \E i \in 1..Len(fref) : overlapping(k, fref[i])

\* State::overlapWithFilter: one term sorted into p (this) or S (returned)
FilterStep(acc, t, ref, allModes, fref) ==
    IF overlapping(t[1], ref) /\ KeyNotEmpty(t[1], allModes)
    THEN IF AnyOverlapping(t[1], fref)
         THEN [acc EXCEPT !.this = Insert(@, t[1], t[2])]
         ELSE [acc EXCEPT !.ret = Insert(@, t[1], t[2])]
    ELSE acc

\* State::overlapWithFilter: the new content of this and the returned State
overlapWithFilter(M, ref, allModes, fref) ==
    FoldSeq(LAMBDA acc, t : FilterStep(acc, t, ref, allModes, fref),
            [this |-> EmptyMap, ret |-> EmptyMap], Terms(M))

\* overlapCompl that keeps the terms a pattern hits
overlapComplKeepHits(M, MVec, allModes) ==
    FoldSeq(LAMBDA p, t :
                IF AnyOverlapping(t[1], MVec) \/ ~KeyNotEmpty(t[1], allModes)
                THEN Insert(p, t[1], t[2]) ELSE p,
            EmptyMap, Terms(M))

\* State::overlapCompl
overlapCompl(M, MVec, allModes) ==
    FoldSeq(LAMBDA p, t :
                IF ~AnyOverlapping(t[1], MVec) \/ ~KeyNotEmpty(t[1], allModes)
                THEN Insert(p, t[1], t[2]) ELSE p,
            EmptyMap, Terms(M))

\* State::collapse: f, from the position of an entry of K to its label
TemplateMap(K) == [j \in 0..(Len(Entries(K)) - 1) |-> Entries(K)[j + 1][2]]

\* f.at(label) finds every label of every key
CollapseDefined(M, f) == \A k \in DOMAIN M : \A p \in DOMAIN k : p[2] \in DOMAIN f

\* CollapseStep that overwrites the amplitude of a key already in p
CollapseStepAssign(p, r) == InsertOrAssign(p, r.key, r.amp)

\* State::collapse: p.emplace and += v for a key already in p
CollapseStep(p, r) == EmplaceAdd(p, r.key, r.amp)

\* State::collapse: the loop over the terms
StateCollapseWith(M, f) ==
    FoldSeq(LAMBDA p, t : CollapseStep(p, KeyCollapse(t[1], f, t[2])), EmptyMap, Terms(M))

\* State::collapse
StateCollapse(M, K) == StateCollapseWith(M, TemplateMap(K))

\* the terms State::collapse has put into p when f.at throws: those before the
\* first key with a label f does not hold
RECURSIVE TermsBeforeThrow(_, _)
TermsBeforeThrow(ts, f) ==
    IF ts = <<>> \/ (\E q \in DOMAIN ts[1][1] : q[2] \notin DOMAIN f) THEN <<>>
    ELSE <<ts[1]>> \o TermsBeforeThrow(Tail(ts), f)

\* StateAfterCollapse that installs the terms collected before the exception
StateAfterCollapsePartial(M, K) ==
    IF CollapseDefined(M, TemplateMap(K)) THEN StateCollapse(M, K)
    ELSE FoldSeq(LAMBDA acc, t : CollapseStep(acc, KeyCollapse(t[1], TemplateMap(K), t[2])),
                 EmptyMap, TermsBeforeThrow(Terms(M), TemplateMap(K)))

\* State::collapse with the exception of f.at: K2 and p are locals, and
\* set(std::move(p)) is not reached when Key::collapse throws
StateAfterCollapse(M, K) ==
    IF CollapseDefined(M, TemplateMap(K)) THEN StateCollapse(M, K) ELSE M

\* what a call of State::collapse ends with
CollapseOutcome(M, K) ==
    IF CollapseDefined(M, TemplateMap(K)) THEN "returned" ELSE "out_of_range"

\* SameDModeTry that goes on with the key the failed attempt left
RECURSIVE SameDModeTryCarry(_, _, _)
SameDModeTryCarry(k, modes, i) ==
    IF i > Len(modes) THEN [found |-> FALSE]
    ELSE IF KeySameDModeDel(k, modes[i]).ok
         THEN [found |-> TRUE, key |-> KeySameDModeDel(k, modes[i]).key, i |-> i]
         ELSE SameDModeTryCarry(KeySameDModeDel(k, modes[i]).key, modes, i + 1)

\* State::sameDModeDel: the loop over modes for one term, K = it->first each time
RECURSIVE SameDModeTry(_, _, _)
SameDModeTry(k, modes, i) ==
    IF i > Len(modes) THEN [found |-> FALSE]
    ELSE IF KeySameDModeDel(k, modes[i]).ok
         THEN [found |-> TRUE, key |-> KeySameDModeDel(k, modes[i]).key, i |-> i]
         ELSE SameDModeTry(k, modes, i + 1)

\* State::sameDModeDel: p.emplace and += for the group that succeeded
SameDModeEmplace(p, v, facs, r) ==
    IF r.found THEN EmplaceAdd(p, r.key, Mul(v, facs[r.i])) ELSE p

\* State::sameDModeDel
StateSameDModeDel(M, modes, facs) ==
    FoldSeq(LAMBDA p, t : SameDModeEmplace(p, t[2], facs, SameDModeTry(t[1], modes, 1)),
            EmptyMap, Terms(M))

-----------------------------------------------------------------------------
(***************************************************************************)
(* The state machine: one State object driven through its public           *)
(* operations.  S, waves, basis and lossMode are the fields of the State   *)
(* (tol keeps its default); ovl is the overlap every descriptor of the run *)
(* carries (the second component handed to trivOvlF).  added, nops and     *)
(* hist record the calls made: the sum of the count arguments, the number  *)
(* of calls, and the last two calls with the State as it was before each.  *)
(***************************************************************************)
VARIABLES S, waves, basis, lossMode, ovl, added, nops, hist, ret, key, out, sched

vars == <<S, waves, basis, lossMode, ovl, added, nops, hist, ret, key, out, sched>>

Modes == 0..MaxMode
Ids == 0..MaxId
Nums == 1..MaxPhotons

Identity == <<One, Zero, Zero, One>>
Balanced == <<InvSqrt2, InvSqrt2, InvSqrt2, MinusInvSqrt2>>
Rotation == <<Zero, One, MinusOne, Zero>>
Exchange == <<Zero, One, One, Zero>>
Unitaries == {Identity, Balanced, Rotation, Exchange}

\* the lists of distinct modes handed to loss
ModeLists ==
    {<<m>> : m \in Modes} \cup {x \in Modes \X Modes : x[1] # x[2]}

Cur == [S |-> S, waves |-> waves, basis |-> basis, lossMode |-> lossMode]

Record(op, arg) ==
    LET h == Append(hist, [op |-> op, arg |-> arg, pre |-> Cur])
    IN  IF Len(h) > 2 THEN Tail(h) ELSE h

\* out before any function was applied to key
NoCall == [fn |-> "none"]

\* sched before main has started a worker
NotStarted == [pc |-> <<>>]

\* the State after a call, with the State the call returned
InstallRet(st, op, arg, r) ==
    /\ S' = st.S
    /\ waves' = st.waves
    /\ basis' = st.basis
    /\ lossMode' = st.lossMode
    /\ nops' = nops + 1
    /\ hist' = Record(op, arg)
    /\ ret' = r
    /\ UNCHANGED <<key, out, sched>>

Install(st, op, arg) == InstallRet(st, op, arg, EmptyMap)

Init ==
    /\ S = EmptyMap
    /\ waves = <<>>
    /\ basis = <<>>
    /\ lossMode = 0
    /\ ovl \in {Zero, Half, One}
    /\ added = 0
    /\ nops = 0
    /\ hist = <<>>
    /\ ret = EmptyMap
    /\ key = EmptyKey
    /\ out = NoCall
    /\ sched = NotStarted

AddPhoton(id, mode, num) ==
    /\ nops < MaxOps
    /\ added + num <= MaxPhotons
    /\ LET wf == <<id, ovl>>
       IN  /\ (S # EmptyMap /\ MatchIndex(wf, waves) = -1)
                  => BasisRepresentable(wf, waves, basis)
           /\ Install(addPhoton(Cur, wf, mode, num), "addPhoton", <<wf, mode, num>>)
    /\ added' = added + num
    /\ UNCHANGED ovl

Apply(U, a, b) ==
    /\ nops < MaxOps
    /\ a # b
    /\ Install([Cur EXCEPT !.S = StateApply(S, U, <<a, b>>)], "apply", <<U, a, b>>)
    /\ UNCHANGED <<ovl, added>>

ApplyPhase(U, mode) ==
    /\ nops < MaxOps
    /\ Install([Cur EXCEPT !.S = StatePhase(S, U, mode)], "phase", <<U, mode>>)
    /\ UNCHANGED <<ovl, added>>

Swap(a, b) ==
    /\ nops < MaxOps
    /\ a < b
    /\ Install([Cur EXCEPT !.S = StateSwap(S, a, b)], "swap", <<a, b>>)
    /\ UNCHANGED <<ovl, added>>

Loss(modes) ==
    /\ nops < MaxOps
    /\ Install(StateLoss(Cur, modes), "loss", <<modes>>)
    /\ UNCHANGED <<ovl, added>>

Next ==
    \/ \E id \in Ids, mode \in Modes, num \in Nums : AddPhoton(id, mode, num)
    \/ \E U \in Unitaries, a \in Modes, b \in Modes : Apply(U, a, b)
    \/ \E U \in {MinusOne}, mode \in Modes : ApplyPhase(U, mode)
    \/ \E a \in Modes, b \in Modes : Swap(a, b)
    \/ \E modes \in ModeLists : Loss(modes)

Spec == Init /\ [][Next]_vars

-----------------------------------------------------------------------------
(***************************************************************************)
(* The extractors of the measurement stage (overlapWithFilter,             *)
(* overlapCompl, collapse) on a State filled term by term with             *)
(* set(k, v).  ret is the State the last call returned (empty when it      *)
(* returned none).                                                         *)
(***************************************************************************)
\* the keys set(k, v) is called with: one or two entries, at most one photon each
PoolKeys ==
    {k \in UNION {[D -> 0..1] : D \in SUBSET (Modes \X Ids)} :
        /\ Cardinality(DOMAIN k) \in 1..2
        /\ \E p \in DOMAIN k : k[p] > 0}

\* the sets of at most n keys
RECURSIVE KeySets(_)
KeySets(n) ==
    IF n = 0 THEN {{}}
    ELSE KeySets(n - 1) \cup {E \cup {k} : E \in KeySets(n - 1), k \in PoolKeys}

\* the States of at most MaxTerms terms
InputStates == UNION {[D -> {One, MinusOne}] : D \in KeySets(MaxTerms)}

\* a pattern: required occupation per spatial mode
Pat(m, n) == [x \in {m} |-> n]

RefPatterns == {Pat(0, 1), Pat(0, 0)}
FRefs == {<<Pat(1, 1)>>, <<Pat(1, 0), Pat(1, 2)>>}
Groups == {<<>>, <<<<0, 1>>>>, <<<<0>>, <<1>>>>}
PatternLists == {<<Pat(0, 1)>>, <<Pat(0, 1), Pat(0, 0)>>}

\* template keys: labels kept, both labels mapped to label 0, labels exchanged,
\* and a template of one entry, which has no label for label 1
Templates ==
    {[p \in {<<0, 0>>, <<1, 1>>} |-> 1], [p \in {<<0, 0>>, <<1, 0>>} |-> 1],
     [p \in {<<0, 1>>, <<1, 0>>} |-> 1], [p \in {<<0, 0>>} |-> 1]}

\* the groups and factors of sameDModeDel: those of cleanOvlGHZ with its two
\* signs, the second with a first group of two modes
StripArgs ==
    {<<<<(<<0>>), (<<1>>)>>, <<InvSqrt2, InvSqrt2>>>>,
     <<<<(<<0, 1>>), (<<1>>)>>, <<InvSqrt2, MinusInvSqrt2>>>>}

InitPost ==
    /\ S \in InputStates
    /\ waves = <<>>
    /\ basis = <<>>
    /\ lossMode = 0
    /\ ovl = Zero
    /\ added = 0
    /\ nops = 0
    /\ hist = <<>>
    /\ ret = EmptyMap
    /\ key = EmptyKey
    /\ out = NoCall
    /\ sched = NotStarted

OverlapWithFilter(ref, allModes, fref) ==
    /\ nops < MaxPostOps
    /\ InstallRet([Cur EXCEPT !.S = overlapWithFilter(S, ref, allModes, fref).this],
                  "overlapWithFilter", <<ref, allModes, fref>>,
                  overlapWithFilter(S, ref, allModes, fref).ret)
    /\ UNCHANGED <<ovl, added>>

OverlapCompl(MVec, allModes) ==
    /\ nops < MaxPostOps
    /\ Install([Cur EXCEPT !.S = overlapCompl(S, MVec, allModes)],
               "overlapCompl", <<MVec, allModes>>)
    /\ UNCHANGED <<ovl, added>>

\* State::collapse; out holds how the call ended
Collapse(K) ==
    /\ nops < MaxPostOps
    /\ S' = StateAfterCollapse(S, K)
    /\ out' = [fn |-> "State::collapse", res |-> CollapseOutcome(S, K)]
    /\ nops' = nops + 1
    /\ hist' = Record("collapse", <<K>>)
    /\ ret' = EmptyMap
    /\ UNCHANGED <<waves, basis, lossMode, ovl, added, key, sched>>

SameDModeDel(modes, facs) ==
    /\ nops < MaxPostOps
    /\ Install([Cur EXCEPT !.S = StateSameDModeDel(S, modes, facs)],
               "sameDModeDel", <<modes, facs>>)
    /\ UNCHANGED <<ovl, added>>

NextPost ==
    \/ \E ref \in RefPatterns, allModes \in Groups, fref \in FRefs :
          OverlapWithFilter(ref, allModes, fref)
    \/ \E MVec \in PatternLists, allModes \in Groups : OverlapCompl(MVec, allModes)
    \/ \E K \in Templates : Collapse(K)
    \/ \E a \in StripArgs : SameDModeDel(a[1], a[2])

SpecPost == InitPost /\ [][NextPost]_vars

-----------------------------------------------------------------------------
(***************************************************************************)
(* A State that is filled with addPhoton, emptied by an extractor that     *)
(* keeps no term, and filled again: waves and basis keep what the earlier  *)
(* calls stored.                                                           *)
(***************************************************************************)
NextRefill ==
    \/ \E id \in Ids, mode \in Modes, num \in Nums : AddPhoton(id, mode, num)
    \/ \E ref \in RefPatterns, allModes \in Groups, fref \in FRefs :
          OverlapWithFilter(ref, allModes, fref)
    \/ \E MVec \in PatternLists, allModes \in Groups : OverlapCompl(MVec, allModes)

SpecRefill == Init /\ [][NextRefill]_vars

-----------------------------------------------------------------------------
(***************************************************************************)
(* The const member functions of one Key: key is the Key, out the last     *)
(* call with its argument and what it returned.                            *)
(***************************************************************************)
\* the modes of a Key: those apply is called on and one more
KeyModes == 0..(MaxMode + 1)

RECURSIVE SumOver(_, _)
SumOver(k, P) ==
    IF P = {} THEN 0
    ELSE SumOver(k, P \ {CHOOSE x \in P : TRUE}) + k[CHOOSE x \in P : TRUE]

\* the Keys of at most MaxPhotons photons, entries of occupation 0 included
KeyInputs ==
    {k \in UNION {[D -> 0..MaxPhotons] : D \in SUBSET (KeyModes \X Ids)} :
        SumOver(k, DOMAIN k) <= MaxPhotons}

\* the patterns: a required occupation for some of the modes
KeyPatterns == UNION {[D -> 0..MaxPhotons] : D \in SUBSET KeyModes}

InitKey ==
    /\ key \in KeyInputs
    /\ out = NoCall
    /\ S = EmptyMap
    /\ waves = <<>>
    /\ basis = <<>>
    /\ lossMode = 0
    /\ ovl = Zero
    /\ added = 0
    /\ nops = 0
    /\ hist = <<>>
    /\ ret = EmptyMap
    /\ sched = NotStarted

\* one call per Key: the functions are const
CallApply(U, a, b) ==
    /\ out = NoCall
    /\ a # b
    /\ out' = [fn |-> "apply", arg |-> <<U, a, b>>, res |-> KeyApply(key, U, <<a, b>>)]
    /\ UNCHANGED <<S, waves, basis, lossMode, ovl, added, nops, hist, ret, key, sched>>

CallOverlapping(ref) ==
    /\ out = NoCall
    /\ out' = [fn |-> "overlapping", arg |-> <<ref>>, res |-> overlapping(key, ref)]
    /\ UNCHANGED <<S, waves, basis, lossMode, ovl, added, nops, hist, ret, key, sched>>

\* the lists of groups of distinct modes, the empty list and an empty group included
GroupLists ==
    {<<>>, <<<<>>>>, <<<<0>>>>, <<<<0, 1>>>>, <<<<0>>, <<1>>>>, <<<<MaxMode + 1>>, <<>>>>}

CallNotEmpty(allModes) ==
    /\ out = NoCall
    /\ out' = [fn |-> "notEmpty", arg |-> <<allModes>>, res |-> KeyNotEmpty(key, allModes)]
    /\ UNCHANGED <<S, waves, basis, lossMode, ovl, added, nops, hist, ret, key, sched>>

\* the lists of distinct modes sameDModeDel is called with
StripLists == {<<>>, <<0>>, <<1>>, <<0, 1>>, <<1, MaxMode + 1>>}

\* sameDModeDel is not const: key becomes the key afterwards, out keeps the key before
CallSameDModeDel(m) ==
    /\ out = NoCall
    /\ out' = [fn |-> "sameDModeDel", arg |-> <<m>>, res |-> KeySameDModeDel(key, m).ok,
               pre |-> key]
    /\ key' = KeySameDModeDel(key, m).key
    /\ UNCHANGED <<S, waves, basis, lossMode, ovl, added, nops, hist, ret, sched>>

\* Key::collapse is not const: key becomes the relabelled key, res is amp afterwards
CallCollapse(f, amp) ==
    /\ out = NoCall
    /\ out' = [fn |-> "collapse", arg |-> <<f, amp>>, res |-> KeyCollapse(key, f, amp).amp,
               pre |-> key]
    /\ key' = KeyCollapse(key, f, amp).key
    /\ UNCHANGED <<S, waves, basis, lossMode, ovl, added, nops, hist, ret, sched>>

NextKey ==
    \/ \E U \in Unitaries, a \in Modes, b \in Modes : CallApply(U, a, b)
    \/ \E f \in [Ids -> Ids], amp \in {One, MinusInvSqrt2} : CallCollapse(f, amp)
    \/ \E m \in StripLists : CallSameDModeDel(m)
    \/ \E ref \in KeyPatterns : CallOverlapping(ref)
    \/ \E allModes \in GroupLists : CallNotEmpty(allModes)

SpecKey == InitKey /\ [][NextKey]_vars

-----------------------------------------------------------------------------
(***************************************************************************)
(* simFid.hpp, Example/test.cpp: main runs schedulerGHZshuffled once per   *)
(* rank, the calls interleaved.  sched holds the shuffle file, the         *)
(* arguments, and per rank its position, todo list and count; files maps   *)
(* the number in a result file's name to the lines appended to it, a line  *)
(* being <<rank of the writer, scenario, overlap>>.  The scenarios are     *)
(* numbered 0..MaxScenario in the order of the loops.                      *)
(***************************************************************************)
\* rank_off as main passes it
RankOff == 0

\* ovls as main passes it: {0.95, 0.99}, by position
Ovls == <<1, 2>>

RECURSIVE SeqsUpTo(_, _)
SeqsUpTo(V, n) ==
    IF n = 0 THEN {<<>>}
    ELSE SeqsUpTo(V, n - 1) \cup {Append(q, v) : q \in SeqsUpTo(V, n - 1), v \in V}

\* the contents of the shuffle file: numbers, also one that is no scenario
ShuffleFiles == SeqsUpTo(0..(MaxScenario + 1), MaxFileLen)


Ranks(size) == 0..(size - 1)

\* TodoOf that takes the numbers of every position, whatever the rank
TodoOfAnyRank(file, size, rank, lower, upper) ==
    FoldSeq(LAMBDA todo, i :
                IF file[i] >= lower /\ file[i] < upper THEN Append(todo, file[i]) ELSE todo,
            <<>>, [i \in 1..Len(file) |-> i])

\* schedulerGHZshuffled: the loop reading the shuffle file into todo
TodoOf(file, size, rank, lower, upper) ==
    FoldSeq(LAMBDA todo, i :
                IF (i - 1) % size = rank /\ file[i] >= lower /\ file[i] < upper
                THEN Append(todo, file[i]) ELSE todo,
            <<>>, [i \in 1..Len(file) |-> i])

\* std::find(todo.begin(), todo.end(), count) != todo.end()
InTodo(todo, count) == \E i \in 1..Len(todo) : todo[i] = count

StartOf(f, n, l, u) ==
    [file |-> f, size |-> n, lower |-> l, upper |-> u,
     pc |-> [r \in Ranks(n) |-> "read"],
     todo |-> [r \in Ranks(n) |-> <<>>],
     count |-> [r \in Ranks(n) |-> 0],
     o |-> [r \in Ranks(n) |-> 1],
     files |-> [r \in Ranks(n) |-> <<>>]]

InitSched ==
    /\ sched \in {StartOf(f, n, l, u) :
                     f \in ShuffleFiles, n \in 1..MaxRanks, l \in {0, 1}, u \in {2, MaxScenario + 1}}
    /\ key = EmptyKey
    /\ out = NoCall
    /\ S = EmptyMap
    /\ waves = <<>>
    /\ basis = <<>>
    /\ lossMode = 0
    /\ ovl = Zero
    /\ added = 0
    /\ nops = 0
    /\ hist = <<>>
    /\ ret = EmptyMap

\* if (count>global_upper) return; then count++ of the next iteration, or the
\* end of the loops after the last scenario
AfterScenario(sc, r) ==
    IF sc.count[r] > sc.upper \/ sc.count[r] = MaxScenario
    THEN [sc EXCEPT !.pc[r] = "done"]
    ELSE [sc EXCEPT !.pc[r] = "find", !.count[r] = @ + 1]

\* write: one line appended to the file path + rank + ".txt"
Appended(sc, name, line) == [sc EXCEPT !.files[name] = Append(@, line)]

\* the while loop over the shuffle file
ReadShuffle(r) ==
    /\ sched.pc[r] = "read"
    /\ sched' = [sched EXCEPT !.pc[r] = "find",
                               !.todo[r] = TodoOf(sched.file, sched.size, r,
                                                  sched.lower, sched.upper)]
    /\ UNCHANGED <<S, waves, basis, lossMode, ovl, added, nops, hist, ret, key, out>>

\* the test of a scenario against todo: fidsim is entered
FindHit(r) ==
    /\ sched.pc[r] = "find"
    /\ InTodo(sched.todo[r], sched.count[r])
    /\ sched' = [sched EXCEPT !.pc[r] = "fid", !.o[r] = 1]
    /\ UNCHANGED <<S, waves, basis, lossMode, ovl, added, nops, hist, ret, key, out>>

\* the test of a scenario against todo: the scenario is passed over
FindMiss(r) ==
    /\ sched.pc[r] = "find"
    /\ ~InTodo(sched.todo[r], sched.count[r])
    /\ sched' = AfterScenario(sched, r)
    /\ UNCHANGED <<S, waves, basis, lossMode, ovl, added, nops, hist, ret, key, out>>

\* fidsim: fid and its write for one more overlap of ovls
Fid(r) ==
    /\ sched.pc[r] = "fid"
    /\ sched.o[r] < Len(Ovls)
    /\ sched' = [Appended(sched, r + RankOff, <<r, sched.count[r], Ovls[sched.o[r]]>>)
                    EXCEPT !.o[r] = @ + 1]
    /\ UNCHANGED <<S, waves, basis, lossMode, ovl, added, nops, hist, ret, key, out>>

\* fidsim: fid and its write for the last overlap of ovls, and the return
FidLast(r) ==
    /\ sched.pc[r] = "fid"
    /\ sched.o[r] = Len(Ovls)
    /\ sched' = AfterScenario(
                    Appended(sched, r + RankOff, <<r, sched.count[r], Ovls[sched.o[r]]>>), r)
    /\ UNCHANGED <<S, waves, basis, lossMode, ovl, added, nops, hist, ret, key, out>>

NextSched ==
    \E r \in Ranks(sched.size) :
        \/ ReadShuffle(r)
        \/ FindHit(r)
        \/ FindMiss(r)
        \/ Fid(r)
        \/ FidLast(r)

SpecSched == InitSched /\ [][NextSched]_vars

-----------------------------------------------------------------------------
(***************************************************************************)
(* Vocabulary of the properties                                            *)
(***************************************************************************)
HasLast == Len(hist) >= 1
Last == hist[Len(hist)]

SingleTerm(k, v) == [j \in {k} |-> v]
AmpOf(M, k) == IF k \in DOMAIN M THEN M[k] ELSE Zero

\* total occupation of spatial mode m in key k, over all distinguishability modes
Occ(k, m) == FoldSeq(LAMBDA a, e : IF e[1] = m THEN a + e[3] ELSE a, 0, Entries(k))

Pruned(M) == \A k \in DOMAIN M : M[k] # Zero
ZeroTerms(M) == {k \in DOMAIN M : M[k] = Zero}

\* M is one term: a single photon at spatial mode a or b
OnePhotonTerm(M, a, b) ==
    \E k \in DOMAIN M : \E p \in DOMAIN k :
        /\ DOMAIN M = {k}
        /\ k = KeyOf(p[1], p[2], 1)
        /\ p[1] \in {a, b}
        /\ M[k] # Zero

\* every term of M is a single photon at spatial mode a or b
OnePhotonState(M, a, b) ==
    /\ M # EmptyMap
    /\ \A k \in DOMAIN M : \E p \in DOMAIN k : k = KeyOf(p[1], p[2], 1) /\ p[1] \in {a, b}

Quarter == <<1, 0, 0, 0, 4>>

-----------------------------------------------------------------------------
(***************************************************************************)
(* C1 -- State::apply with the identity unitary leaves the map unchanged   *)
(***************************************************************************)
IdentityCase == HasLast /\ Last.op = "apply" /\ Last.arg[1] = Identity

\* C1: after apply([1,0,0,1], {a,b}) the state holds the same keys with the
\* same amplitudes as before, for every term above the tolerance.
C1_IdentityUnchanged == IdentityCase => S = StateClean(Last.pre.S)

(***************************************************************************)
(* C2 -- two photons with orthogonal descriptors through a balanced        *)
(* beam-splitter                                                           *)
(***************************************************************************)
\* empty state; addPhoton(w0, a, 1); addPhoton(w1, b, 1) with overlap 0;
\* apply(Balanced, {a, b})
HOMCase ==
    /\ nops = 3 /\ Len(hist) = 2 /\ ovl = Zero
    /\ hist[1].op = "addPhoton" /\ hist[1].arg[3] = 1
    /\ hist[2].op = "apply" /\ hist[2].arg[1] = Balanced
    /\ hist[1].arg[2] \in {hist[2].arg[2], hist[2].arg[3]}
    /\ \E a \in {hist[2].arg[2], hist[2].arg[3]} :
          /\ a # hist[1].arg[2]
          /\ hist[1].pre.S = SingleTerm(KeyOf(a, 0, 1), One)
    /\ Len(hist[1].pre.waves) = 1
    /\ hist[1].pre.waves[1][1] # hist[1].arg[1][1]

HOMa == hist[2].arg[2]
HOMb == hist[2].arg[3]
Conf(x, y) == {k \in DOMAIN S : Occ(k, HOMa) = x /\ Occ(k, HOMb) = y}

\* C2 as claimed: no term with one photon in a and one in b is left, and the
\* (2,0) and (0,2) configurations carry equal non-zero amplitude magnitude.
C2_HOMBunching ==
    HOMCase =>
        /\ Conf(1, 1) = {}
        /\ Conf(2, 0) # {} /\ Conf(0, 2) # {}
        /\ \A k \in Conf(2, 0), j \in Conf(0, 2) :
              AbsSq(S[k]) = AbsSq(S[j]) /\ S[k] # Zero

\* C2 amended: the photons carry different distinguishability labels, so the
\* result has four terms of magnitude 1/2: one (2,0), one (0,2), and two (1,1)
\* terms of opposite sign, which differ in their labels and do not cancel.
C2_DistinguishableNoCancel ==
    HOMCase =>
        /\ Cardinality(DOMAIN S) = 4
        /\ \A k \in DOMAIN S : AbsSq(S[k]) = Quarter
        /\ Cardinality(Conf(2, 0)) = 1 /\ Cardinality(Conf(0, 2)) = 1
        /\ Cardinality(Conf(1, 1)) = 2
        /\ \A k \in Conf(1, 1), j \in Conf(1, 1) : k # j => S[k] = Neg(S[j])

C2_Witness == HOMCase /\ Cardinality(Conf(1, 1)) = 2

(***************************************************************************)
(* C3 -- the convention of the two-mode unitary                            *)
(***************************************************************************)
\* apply(U, {a, b}) on the state (Key(m, d, 1) : amp) with m = a or m = b
OnePhotonApplyCase ==
    /\ HasLast /\ Last.op = "apply"
    /\ OnePhotonTerm(Last.pre.S, Last.arg[2], Last.arg[3])

InKey == CHOOSE k \in DOMAIN Last.pre.S : TRUE
InPair == CHOOSE p \in DOMAIN InKey : TRUE
InAmp == Last.pre.S[InKey]
OutAtA == AmpOf(S, KeyOf(Last.arg[2], InPair[2], 1))
OutAtB == AmpOf(S, KeyOf(Last.arg[3], InPair[2], 1))

\* C3 as claimed: a photon at a gets U00 (U[0]) at a and U01 (U[1]) at b, a
\* photon at b gets U10 (U[2]) at a and U11 (U[3]) at b.
C3_RowConvention ==
    OnePhotonApplyCase =>
        LET U == Last.arg[1]
        IN  IF InPair[1] = Last.arg[2]
            THEN OutAtA = Mul(InAmp, U[1]) /\ OutAtB = Mul(InAmp, U[2])
            ELSE OutAtA = Mul(InAmp, U[3]) /\ OutAtB = Mul(InAmp, U[4])

\* C3 amended: a photon at a gets U[0] at a and U[2] at b, a photon at b gets
\* U[1] at a and U[3] at b (same label), and no other key is produced.
C3_ColumnConvention ==
    OnePhotonApplyCase =>
        LET U == Last.arg[1]
        IN  /\ DOMAIN S \subseteq {KeyOf(Last.arg[2], InPair[2], 1),
                                   KeyOf(Last.arg[3], InPair[2], 1)}
            /\ IF InPair[1] = Last.arg[2]
               THEN OutAtA = Mul(InAmp, U[1]) /\ OutAtB = Mul(InAmp, U[3])
               ELSE OutAtA = Mul(InAmp, U[2]) /\ OutAtB = Mul(InAmp, U[4])

C3_Witness ==
    /\ OnePhotonApplyCase
    /\ Last.arg[1] = Rotation
    /\ InPair[1] = Last.arg[2]
    /\ OutAtB = Mul(InAmp, MinusOne)

(***************************************************************************)
(* C4 -- the loss-mode floor                                               *)
(***************************************************************************)
\* C4: lossMode is strictly greater than every spatial mode that occurs in a
\* key of the state.
C4_LossModeAboveModes == \A k \in DOMAIN S : \A p \in DOMAIN k : p[1] < lossMode

(***************************************************************************)
(* C5 -- occupation numbers of the exposed keys                            *)
(***************************************************************************)
\* C5: after every operation, every entry of every key has a strictly
\* positive occupation number.
C5_PositiveCounts == \A k \in DOMAIN S : \A p \in DOMAIN k : k[p] > 0

TwiceBalancedCase ==
    /\ Len(hist) = 2
    /\ hist[1].op = "apply" /\ hist[2].op = "apply"
    /\ hist[1].arg[1] = Balanced /\ hist[2].arg = hist[1].arg
    /\ OnePhotonTerm(hist[1].pre.S, hist[1].arg[2], hist[1].arg[3])

\* C7: two applications of the balanced beam-splitter on {a,b} to one photon
\* at a or b give back the original key with its original amplitude, alone.
C7_BalancedTwice == TwiceBalancedCase => S = hist[1].pre.S

C7_Witness == TwiceBalancedCase /\ Cardinality(DOMAIN hist[2].pre.S) = 2

(***************************************************************************)
(* C8 -- the norm under the balanced beam-splitter                         *)
(***************************************************************************)
BalancedOnePhotonCase ==
    /\ HasLast /\ Last.op = "apply" /\ Last.arg[1] = Balanced
    /\ OnePhotonState(Last.pre.S, Last.arg[2], Last.arg[3])

\* C8: for a single photon in modes a, b the sum of the squared amplitude
\* magnitudes is the same before and after apply(Balanced, {a,b}).
C8_NormPreserved == BalancedOnePhotonCase => NormSq(S) = NormSq(Last.pre.S)

C8_Witness ==
    /\ BalancedOnePhotonCase
    /\ Cardinality(DOMAIN Last.pre.S) = 1
    /\ Cardinality(DOMAIN S) = 2
    /\ NormSq(S) = One

(***************************************************************************)
(* C9 -- addPhoton with a descriptor identical to a stored one             *)
(***************************************************************************)
LastWf == Last.arg[1]
Matches == {i \in 1..Len(Last.pre.waves) : Abs(get_ovlp(LastWf, Last.pre.waves[i])) = One}

IdenticalCase ==
    /\ HasLast /\ Last.op = "addPhoton"
    /\ Last.pre.S # EmptyMap
    /\ Matches # {}

\* the key k with count more photons at (mode, matched index)
Raised(k) ==
    LET q == <<Last.arg[2], (CHOOSE i \in Matches : \A h \in Matches : i <= h) - 1>>
    IN  [x \in DOMAIN k \cup {q} |->
            IF x = q THEN (IF q \in DOMAIN k THEN k[q] ELSE 0) + Last.arg[3] ELSE k[x]]

\* C9: waves and basis keep their length, the number of terms is unchanged,
\* and every key gains count photons at (mode, matched index) with its
\* amplitude and its other entries unchanged.
C9_IdenticalDescriptor ==
    IdenticalCase =>
        /\ Len(waves) = Len(Last.pre.waves) /\ Len(basis) = Len(Last.pre.basis)
        /\ Cardinality(DOMAIN S) = Cardinality(DOMAIN Last.pre.S)
        /\ \A k \in DOMAIN Last.pre.S :
              Raised(k) \in DOMAIN S /\ S[Raised(k)] = Last.pre.S[k]

C9_Witness ==
    /\ IdenticalCase
    /\ Cardinality(DOMAIN S) >= 2
    /\ \E k \in DOMAIN S : \E p \in DOMAIN k : k[p] = 2

(***************************************************************************)
(* C10 -- addPhoton with a descriptor orthogonal to the stored ones        *)
(***************************************************************************)
OrthogonalCase ==
    /\ HasLast /\ Last.op = "addPhoton"
    /\ Last.pre.S # EmptyMap
    /\ \A i \in 1..Len(Last.pre.waves) :
          /\ get_ovlp(LastWf, Last.pre.waves[i]) = Zero
          /\ get_ovlp(Last.pre.waves[i], LastWf) = Zero

\* C10: exactly one descriptor and one basis vector are appended, the lengths
\* stay equal, and the new vector has inner product 1 with itself and 0 with
\* every earlier basis vector.
C10_OrthogonalDescriptor ==
    OrthogonalCase =>
        /\ waves = Append(Last.pre.waves, LastWf)
        /\ Len(basis) = Len(Last.pre.basis) + 1
        /\ SubSeq(basis, 1, Len(Last.pre.basis)) = Last.pre.basis
        /\ Len(waves) = Len(basis)
        /\ ovlp(basis[Len(basis)], basis[Len(basis)], waves) = One
        /\ \A i \in 1..(Len(basis) - 1) :
              ovlp(basis[i], basis[Len(basis)], waves) = Zero

C10_Witness == OrthogonalCase /\ Len(basis) = 2

(***************************************************************************)
(* C11 -- loss on modes that hold no photon                                *)
(***************************************************************************)
LossModes == Last.arg[1]

\* the set of spatial modes listed in a vector of modes
ModeSet(modes) == {modes[i] : i \in 1..Len(modes)}

NoPhotonToLoseCase ==
    /\ HasLast /\ Last.op = "loss"
    /\ \A k \in DOMAIN Last.pre.S : \A m \in ModeSet(LossModes) : Occ(k, m) = 0

\* C11 as stated: loss on modes on which every key has total occupation 0
\* returns the identical state (same keys, same amplitudes) and leaves
\* lossMode unchanged.
C11_LossIdentical ==
    NoPhotonToLoseCase => S = Last.pre.S /\ lossMode = Last.pre.lossMode

\* C11 amended: every term above the tolerance comes back with its key and
\* amplitude, the terms at or below the tolerance are removed, and lossMode
\* is unchanged.
C11_LossKeepsTermsAboveTol ==
    NoPhotonToLoseCase =>
        /\ DOMAIN S = DOMAIN Last.pre.S \ ZeroTerms(Last.pre.S)
        /\ \A k \in DOMAIN S : S[k] = Last.pre.S[k]
        /\ lossMode = Last.pre.lossMode

C11_Witness ==
    /\ NoPhotonToLoseCase
    /\ ZeroTerms(Last.pre.S) # {}
    /\ S # EmptyMap

(***************************************************************************)
(* C12 -- loss of a single photon                                          *)
(***************************************************************************)
\* the entries of k with a positive occupation
Photons(k) == [p \in {q \in DOMAIN k : k[q] > 0} |-> k[p]]

\* the pre-state is one term whose only photon sits at the single mode lost
SinglePhotonLossCase ==
    /\ HasLast /\ Last.op = "loss" /\ Len(LossModes) = 1
    /\ \E k \in DOMAIN Last.pre.S : \E p \in DOMAIN k :
          /\ DOMAIN Last.pre.S = {k}
          /\ Photons(k) = KeyOf(LossModes[1], p[2], 1)

\* C12: loss({m}) on one term with a single photon at m gives exactly one
\* term, with an amplitude of the same magnitude, whose only photon sits at
\* the environment mode lossMode + 0 with its label kept.
C12_SinglePhotonLoss ==
    SinglePhotonLossCase =>
        \E k \in DOMAIN Last.pre.S : \E p \in DOMAIN k : \E K \in DOMAIN S :
            /\ Photons(k) = KeyOf(LossModes[1], p[2], 1)
            /\ DOMAIN S = {K}
            /\ AbsSq(S[K]) = AbsSq(Last.pre.S[k])
            /\ Photons(K) = KeyOf(Last.pre.lossMode, p[2], 1)

C12_Witness ==
    /\ SinglePhotonLossCase
    /\ Last.pre.lossMode > LossModes[1]
    /\ \E K \in DOMAIN S : S[K] # Zero

(***************************************************************************)
(* C18 -- the branches of Key::loss                                        *)
(***************************************************************************)
\* position of m in modes, counted from 0
IndexIn(modes, m) ==
    (CHOOSE i \in 1..Len(modes) : modes[i] = m /\ \A h \in 1..(i - 1) : modes[h] # m) - 1

\* the entries of k that lose a photon
Qualifying(k, modes) == {p \in DOMAIN k : p[1] \in ModeSet(modes) /\ k[p] > 0}

QualifyingTotal(k, modes) ==
    FoldSeq(LAMBDA a, e : IF e[1] \in ModeSet(modes) /\ e[3] > 0 THEN a + e[3] ELSE a,
            0, Entries(k))

\* k with one photon taken from entry p and one photon added at the
\* environment mode of p's spatial mode, same label
Branch(k, modes, floor, p) ==
    [x \in DOMAIN k \cup {<<floor + IndexIn(modes, p[1]), p[2]>>} |->
        (IF x \in DOMAIN k THEN k[x] ELSE 0)
            - (IF x = p THEN 1 ELSE 0)
            + (IF x = <<floor + IndexIn(modes, p[1]), p[2]>> THEN 1 ELSE 0)]

BranchesAsStated(k, modes, floor, R) ==
    /\ Cardinality(DOMAIN R) = Cardinality(Qualifying(k, modes))
    /\ \A p \in Qualifying(k, modes) :
          /\ Branch(k, modes, floor, p) \in DOMAIN R
          /\ R[Branch(k, modes, floor, p)]
                = Div(Sqrt(FromInt(k[p])), Sqrt(FromInt(QualifyingTotal(k, modes))))
    /\ FoldSeq(LAMBDA a, t : Add(a, AbsSq(t[2])), Zero, Terms(R)) = One

\* C18: for every key handed to Key::loss by State::loss that has k >= 1
\* entries with positive occupation on the listed modes, the result holds
\* exactly k keys, one per such entry: the input with one photon moved from
\* the entry to (lossMode + index of its mode, same label), with amplitude
\* sqrt(n_i)/sqrt(n_1+...+n_k); the squared amplitudes sum to 1.
C18_LossBranches ==
    (HasLast /\ Last.op = "loss") =>
        \A k \in DOMAIN Last.pre.S :
            Qualifying(k, LossModes) # {} =>
                BranchesAsStated(k, LossModes, Last.pre.lossMode,
                                 KeyLoss(k, LossModes, Last.pre.lossMode, 0).R)

(***************************************************************************)
(* C19 -- environment modes of successive loss calls                       *)
(***************************************************************************)
\* the environment modes assigned by the loss call recorded in h
EnvModes(h) ==
    {h.pre.lossMode + IndexIn(h.arg[1], p[1]) :
        p \in UNION {Qualifying(k, h.arg[1]) : k \in DOMAIN h.pre.S}}

TwoLossCase == Len(hist) = 2 /\ hist[1].op = "loss" /\ hist[2].op = "loss"

\* C19: when loss returns, lossMode is not lower than before and strictly
\* above every environment mode the call assigned; of two successive loss
\* calls the later one assigns only modes above those of the earlier one.
C19_EnvModesFresh ==
    /\ (HasLast /\ Last.op = "loss") =>
          /\ lossMode >= Last.pre.lossMode
          /\ \A e \in EnvModes(Last) : e < lossMode
    /\ TwoLossCase =>
          \A e1 \in EnvModes(hist[1]) : \A e2 \in EnvModes(hist[2]) : e1 < e2

C19_Witness == TwoLossCase /\ EnvModes(hist[1]) # {} /\ EnvModes(hist[2]) # {}

\* the template key K gives the identity mapping and covers every label of M
IdentityTemplate(K, M) ==
    /\ \A j \in DOMAIN TemplateMap(K) : TemplateMap(K)[j] = j
    /\ CollapseDefined(M, TemplateMap(K))

IdentityCollapseCase ==
    /\ HasLast
    /\ Last.op = "collapse"
    /\ IdentityTemplate(Last.arg[1], Last.pre.S)

\* C13: State::collapse with a template key whose j-th entry carries label j
\* and which covers every label of the state leaves every key and every
\* amplitude as it was, also when a collapse was applied before.
C13_IdentityCollapse == IdentityCollapseCase => S = Last.pre.S

\* an identity collapse of a state in which a previous collapse merged two
\* photons into one entry and rescaled the amplitude
C13_Witness ==
    /\ IdentityCollapseCase
    /\ Len(hist) = 2
    /\ hist[1].op = "collapse"
    /\ hist[1].pre.S # Last.pre.S
    /\ \E k \in DOMAIN S : (\E p \in DOMAIN k : k[p] = 2) /\ ~IsRational(S[k])
    /\ S = Last.pre.S

\* the key k has the occupation the pattern asks for at every mode it names
HasPattern(k, pattern) == \A m \in DOMAIN pattern : Occ(k, m) = pattern[m]

\* the post-selection test: some group has every mode occupied, or no group given
PostSelected(k, groups) ==
    \/ Len(groups) = 0
    \/ \E i \in 1..Len(groups) : \A j \in 1..Len(groups[i]) : Occ(k, groups[i][j]) > 0

OverlapsSome(k, refs) == \E i \in 1..Len(refs) : HasPattern(k, refs[i])

FilterCase == HasLast /\ Last.op = "overlapWithFilter"

\* the key k of the pre-state is where the claim puts it
FilterPlaced(k, pre, pattern, groups, refs) ==
    /\ k \in DOMAIN S <=>
          HasPattern(k, pattern) /\ PostSelected(k, groups) /\ OverlapsSome(k, refs)
    /\ k \in DOMAIN ret <=>
          HasPattern(k, pattern) /\ PostSelected(k, groups) /\ ~OverlapsSome(k, refs)
    /\ k \in DOMAIN S => S[k] = pre[k]
    /\ k \in DOMAIN ret => ret[k] = pre[k]

\* C14: overlapWithFilter(pattern, groups, refs) partitions the terms: a term
\* stays in this iff it matches pattern, passes the post-selection test on
\* groups and overlaps at least one pattern of refs; it is in the returned
\* state iff it matches pattern and passes the test but overlaps no pattern
\* of refs; every other term is in neither; key and amplitude are kept
\* exactly, and no term is in both.
C14_FilterPartition ==
    FilterCase =>
        /\ \A k \in DOMAIN Last.pre.S :
              FilterPlaced(k, Last.pre.S, Last.arg[1], Last.arg[2], Last.arg[3])
        /\ (DOMAIN S \cup DOMAIN ret) \subseteq DOMAIN Last.pre.S
        /\ DOMAIN S \cap DOMAIN ret = {}

\* a two-term state split into one retained and one returned term of
\* different amplitudes
C14_Witness ==
    /\ FilterCase
    /\ Cardinality(DOMAIN Last.pre.S) = 2
    /\ Cardinality(DOMAIN S) = 1
    /\ Cardinality(DOMAIN ret) = 1
    /\ \E k \in DOMAIN S : \E l \in DOMAIN ret : S[k] # ret[l]
    /\ Len(Last.arg[2]) > 0

CompletionCase == HasLast /\ Last.op = "overlapCompl"

\* the keys overlapWithFilter(pattern, groups, refs) retains or returns
Accepted(M, pattern, groups, refs) ==
    DOMAIN overlapWithFilter(M, pattern, groups, refs).this
        \cup DOMAIN overlapWithFilter(M, pattern, groups, refs).ret

AcceptedOverAll(M, patterns, groups, refs) ==
    UNION {Accepted(M, patterns[i], groups, refs) : i \in 1..Len(patterns)}

\* C15: overlapCompl(patterns, groups) keeps exactly the terms that
\* overlapWithFilter(p, groups, refs) neither retains nor returns for any p
\* of patterns, whatever refs is: the kept terms and the accepted terms of
\* the same input state are disjoint and together are all its terms.
C15_ComplementOfFilter ==
    CompletionCase =>
        \A refs \in FRefs :
            /\ DOMAIN S \cap AcceptedOverAll(Last.pre.S, Last.arg[1], Last.arg[2], refs) = {}
            /\ DOMAIN S \cup AcceptedOverAll(Last.pre.S, Last.arg[1], Last.arg[2], refs)
                  = DOMAIN Last.pre.S
            /\ \A k \in DOMAIN S : S[k] = Last.pre.S[k]

\* a two-term state of which overlapCompl keeps one term and drops the one
\* that a pattern and the post-selection test accept
C15_Witness ==
    /\ CompletionCase
    /\ Cardinality(DOMAIN Last.pre.S) = 2
    /\ Cardinality(DOMAIN S) = 1
    /\ Len(Last.arg[1]) = 2
    /\ Len(Last.arg[2]) > 0
    /\ \E k \in DOMAIN Last.pre.S \ DOMAIN S :
          HasPattern(k, Last.arg[1][2]) /\ PostSelected(k, Last.arg[2])

ApplyCall == out.fn = "apply"

\* the occupation of the entry p of the key k, 0 when k has no such entry
At(k, p) == IF p \in DOMAIN k THEN k[p] ELSE 0

\* the entries of k at spatial modes other than a and b
Outside(k, a, b) == [p \in {q \in DOMAIN k : q[1] # a /\ q[1] # b} |-> k[p]]

\* C17: Key::apply(U, [a,b], tol) leaves everything outside the modes a and b
\* untouched and conserves the photons per label: in every returned key the
\* entries at other modes are those of the input key with their occupations,
\* and for every label d the occupations at (a,d) and (b,d) add up to what
\* they add up to in the input key.
C17_ApplyLocal ==
    ApplyCall =>
        \A k \in DOMAIN out.res :
            /\ Outside(k, out.arg[2], out.arg[3]) = Outside(key, out.arg[2], out.arg[3])
            /\ \A d \in Ids :
                  At(k, <<out.arg[2], d>>) + At(k, <<out.arg[3], d>>)
                      = At(key, <<out.arg[2], d>>) + At(key, <<out.arg[3], d>>)

\* the balanced splitter on a key with a photon in the modes and an occupied
\* entry outside: several keys are returned
C17_Witness ==
    /\ ApplyCall
    /\ out.arg[1] = Balanced
    /\ Cardinality(DOMAIN out.res) >= 2
    /\ \E p \in DOMAIN key : p[1] # out.arg[2] /\ p[1] # out.arg[3] /\ key[p] > 0
    /\ \E d \in Ids : At(key, <<out.arg[2], d>>) + At(key, <<out.arg[3], d>>) > 0
    /\ \A k \in DOMAIN out.res :
          Outside(k, out.arg[2], out.arg[3]) = Outside(key, out.arg[2], out.arg[3])

OverlappingCall == out.fn = "overlapping"

\* the entries of k at the spatial modes of the set M
Inside(k, M) == [p \in {q \in DOMAIN k : q[1] \in M} |-> k[p]]

\* C20: Key::overlapping(pattern) is true iff at every spatial mode named in
\* pattern the total occupation of the key, summed over the labels and 0
\* without an entry, is the value pattern requires; the entries at modes
\* pattern does not name do not influence the result.
C20_OverlappingTotals ==
    OverlappingCall =>
        /\ out.res = HasPattern(key, out.arg[1])
        /\ out.res = overlapping(Inside(key, DOMAIN out.arg[1]), out.arg[1])

\* a match on a mode occupied under two labels and on a mode without entry,
\* with a photon at a mode the pattern does not name
C20_Witness ==
    /\ OverlappingCall
    /\ out.res
    /\ \E m \in DOMAIN out.arg[1] :
          out.arg[1][m] = 2 /\ \A d \in Ids : At(key, <<m, d>>) = 1
    /\ \E m \in DOMAIN out.arg[1] : \A p \in DOMAIN key : p[1] # m
    /\ \E p \in DOMAIN key : p[1] \notin DOMAIN out.arg[1]

Started == DOMAIN sched.pc # {}

AllDone == Started /\ \A r \in Ranks(sched.size) : sched.pc[r] = "done"

\* the positions (from 0) at which the shuffle file lists x
PositionsOf(x) == {i \in 0..(Len(sched.file) - 1) : sched.file[i + 1] = x}

\* x is a scenario, listed once in the shuffle file, inside the window
ListedOnceInWindow(x) ==
    /\ x \in 0..MaxScenario
    /\ Cardinality(PositionsOf(x)) = 1
    /\ x >= sched.lower /\ x < sched.upper

\* the rank the claim assigns to x
OwnerOf(x) == (CHOOSE i \in PositionsOf(x) : TRUE) % sched.size

\* the lines about scenario x for overlap o in the file named n
LinesAt(n, x, o) ==
    {i \in 1..Len(sched.files[n]) : sched.files[n][i][2] = x /\ sched.files[n][i][3] = o}

\* the ranks that have written a line about scenario x
ComputedBy(x) ==
    {r \in Ranks(sched.size) :
        \E n \in DOMAIN sched.files : \E i \in 1..Len(sched.files[n]) :
            sched.files[n][i][1] = r /\ sched.files[n][i][2] = x}

\* every line of the file named n was written by rank n
OwnFileOnly == \A n \in DOMAIN sched.files :
                  \A i \in 1..Len(sched.files[n]) : sched.files[n][i][1] = n

\* C16: when main runs schedulerGHZshuffled for the ranks 0..size-1
\* concurrently, every scenario listed once in the shuffle file and lying in
\* [global_lower, global_upper) is computed by exactly one rank, the one
\* equal to its position in the file modulo size (never by another rank,
\* once for each overlap when all ranks have returned), and each rank
\* appends only to the file named after it, so no file has two writers.
C16_WorkerIsolation ==
    Started =>
        /\ OwnFileOnly
        /\ \A x \in 0..MaxScenario :
              ListedOnceInWindow(x) =>
                  /\ ComputedBy(x) \subseteq {OwnerOf(x)}
                  /\ \A o \in 1..Len(Ovls) :
                        Cardinality(LinesAt(OwnerOf(x), x, Ovls[o])) <= 1
                  /\ AllDone =>
                        /\ ComputedBy(x) = {OwnerOf(x)}
                        /\ \A o \in 1..Len(Ovls) :
                              Cardinality(LinesAt(OwnerOf(x), x, Ovls[o])) = 1

\* two ranks have returned, each has computed a scenario listed once in the
\* window, and a listed number outside the window was computed by no rank
C16_Witness ==
    /\ AllDone
    /\ sched.size = 2
    /\ \A r \in Ranks(2) :
          \E x \in 0..MaxScenario :
              ListedOnceInWindow(x) /\ OwnerOf(x) = r /\ ComputedBy(x) = {r}
    /\ \E i \in 1..Len(sched.file) :
          sched.file[i] < sched.lower /\ ComputedBy(sched.file[i]) = {}

NotEmptyCall == out.fn = "notEmpty"

\* C21: Key::notEmpty(groups) is true iff groups is empty or some group has
\* positive occupation in the key at every one of its spatial modes, for
\* every key (the key with no entries included) and every list of groups
\* (a list containing an empty group included).
C21_NotEmptyGroups == NotEmptyCall => (out.res <=> PostSelected(key, out.arg[1]))

StripCall == out.fn = "sameDModeDel"

\* the entries of k with positive occupation
Positive(k) == {p \in DOMAIN k : k[p] > 0}

\* every mode of the list m is occupied in k, under one common label
SameLabelOn(k, m) ==
    /\ \A i \in 1..Len(m) : Occ(k, m[i]) > 0
    /\ \A p \in Positive(k), q \in Positive(k) :
          (p[1] \in ModeSet(m) /\ q[1] \in ModeSet(m)) => p[2] = q[2]

\* the entries of k with positive occupation at modes outside the list m
PositiveOutside(k, m) ==
    [p \in {q \in Positive(k) : q[1] \notin ModeSet(m)} |-> k[p]]

\* C22: Key::sameDModeDel(modes) returns true iff every spatial mode in modes
\* has positive occupation in the key and all entries with positive
\* occupation at those modes carry one common label; after a call that
\* returned true the key has no entry at a mode in modes, and the entries
\* with positive occupation at other modes are as they were.
C22_SameLabelStrip ==
    StripCall =>
        /\ out.res <=> SameLabelOn(out.pre, out.arg[1])
        /\ out.res =>
              /\ \A p \in DOMAIN key : p[1] \notin ModeSet(out.arg[1])
              /\ PositiveOutside(key, out.arg[1]) = PositiveOutside(out.pre, out.arg[1])

\* a successful call on an occupied mode, with a photon outside the list
\* and an entry of occupation 0 at the mode stripped
C22_Witness ==
    /\ StripCall
    /\ out.res
    /\ Len(out.arg[1]) >= 1
    /\ \E p \in DOMAIN out.pre : p[1] \in ModeSet(out.arg[1]) /\ out.pre[p] = 0
    /\ \E p \in DOMAIN key : key[p] > 0
    /\ key # out.pre

KeyCollapseCall == out.fn = "collapse"

RECURSIVE Factorial(_)
Factorial(n) == IF n <= 1 THEN 1 ELSE n * Factorial(n - 1)

\* the product of the factorials of the occupations of the entries in P
RECURSIVE FactorialsOf(_, _)
FactorialsOf(k, P) ==
    IF P = {} THEN 1
    ELSE Factorial(k[CHOOSE x \in P : TRUE]) * FactorialsOf(k, P \ {CHOOSE x \in P : TRUE})

\* the occupation at (s, e) the claim states: the old occupations at (s, d), f(d) = e
Relabelled(k, f, s, e) == SumOver(k, {q \in DOMAIN k : q[1] = s /\ f[q[2]] = e})

\* C24: Key::collapse(f, amp) relabels and merges: for every spatial mode s and
\* new label e the occupation at (s,e) is the sum of the old occupations at
\* (s,d) over the labels d with f(d) = e, there are no other entries, and amp
\* is multiplied by sqrt(product of the factorials of the new occupations)
\* over sqrt(product of the factorials of the old occupations).
C24_CollapseMerges ==
    KeyCollapseCall =>
        /\ \A s \in KeyModes, e \in Ids : At(key, <<s, e>>) = Relabelled(out.pre, out.arg[1], s, e)
        /\ \A p \in DOMAIN key :
              \E q \in DOMAIN out.pre : q[1] = p[1] /\ out.arg[1][q[2]] = p[2]
        /\ Mul(out.res, Sqrt(FromInt(FactorialsOf(out.pre, DOMAIN out.pre))))
              = Mul(out.arg[2], Sqrt(FromInt(FactorialsOf(key, DOMAIN key))))

\* two photons of different labels at one mode merged into an entry of
\* occupation 2, the amplitude multiplied by sqrt(2)
C24_Witness ==
    /\ KeyCollapseCall
    /\ \E p \in DOMAIN key :
          key[p] = 2 /\ \A d \in Ids : At(out.pre, <<p[1], d>>) = 1
    /\ out.res = Mul(out.arg[2], Sqrt(FromInt(2)))
    /\ out.res # out.arg[2]

\* the sum of the amplitudes h(k) over the keys k of the set P
RECURSIVE SumAmps(_, _)
SumAmps(h, P) ==
    IF P = {} THEN Zero
    ELSE Add(h[CHOOSE k \in P : TRUE], SumAmps(h, P \ {CHOOSE k \in P : TRUE}))

StripStateCase == HasLast /\ Last.op = "sameDModeDel"

\* the groups of the list on which the projection of the key k succeeds
Succeeding(k, groups) == {i \in 1..Len(groups) : SameLabelOn(k, groups[i])}

\* the first group on which the projection of k succeeds
FirstGroup(k, groups) ==
    CHOOSE i \in Succeeding(k, groups) : \A j \in Succeeding(k, groups) : i <= j

\* the key of the term k in the result: stripped of the first group that succeeds
StrippedKey(k, groups) == PositiveOutside(k, groups[FirstGroup(k, groups)])

\* the terms of M that end in the key n, each with its amplitude times its factor
StripSources(M, groups, n) ==
    {k \in DOMAIN M : Succeeding(k, groups) # {} /\ StrippedKey(k, groups) = n}

StripScaled(M, groups, facs) ==
    [k \in {l \in DOMAIN M : Succeeding(l, groups) # {}} |->
        Mul(M[k], facs[FirstGroup(k, groups)])]

\* C23: State::sameDModeDel(groups, factors) tests the original key of each
\* term against the groups in list order; the first group i that succeeds
\* gives the stripped key with amplitude original * factors[i], whatever a
\* failed attempt on an earlier group did; a term on which no group succeeds
\* is absent, and terms with the same stripped key are merged, their scaled
\* amplitudes summed.
C23_FirstGroupWins ==
    StripStateCase =>
        /\ DOMAIN S = {StrippedKey(k, Last.arg[1]) :
                          k \in {l \in DOMAIN Last.pre.S : Succeeding(l, Last.arg[1]) # {}}}
        /\ \A n \in DOMAIN S :
              S[n] = SumAmps(StripScaled(Last.pre.S, Last.arg[1], Last.arg[2]),
                             StripSources(Last.pre.S, Last.arg[1], n))

\* two terms merged into one key: one succeeds on the second group after an
\* attempt on the first group of two modes that failed only at the count
C23_Witness ==
    /\ StripStateCase
    /\ Cardinality(DOMAIN Last.pre.S) = 2
    /\ Cardinality(DOMAIN S) = 1
    /\ \A k \in DOMAIN Last.pre.S : Succeeding(k, Last.arg[1]) # {}
    /\ \E k \in DOMAIN Last.pre.S :
          /\ FirstGroup(k, Last.arg[1]) = 2
          /\ Len(Last.arg[1][1]) = 2
          /\ Occ(k, Last.arg[1][1][2]) > 0
    /\ \A n \in DOMAIN S : S[n] # Zero

StateCollapseCase ==
    /\ HasLast
    /\ Last.op = "collapse"
    /\ out.res = "returned"

\* the label of the j-th entry (from 0) of the template K in its sorted order
TemplateLabel(K, j) ==
    (CHOOSE p \in DOMAIN K : Cardinality({q \in DOMAIN K : PairLess(q, p)}) = j)[2]

LabelMapOf(K) == [j \in 0..(Cardinality(DOMAIN K) - 1) |-> TemplateLabel(K, j)]

\* the key k with every label d replaced by f(d), occupations of entries that meet added
RelabelKey(k, f) ==
    [p \in {<<q[1], f[q[2]]>> : q \in DOMAIN k} |-> Relabelled(k, f, p[1], p[2])]

\* the amplitudes of M, each rescaled for its relabelled key
Rescaled(M, f) ==
    [k \in DOMAIN M |->
        Div(Mul(M[k], Sqrt(FromInt(FactorialsOf(RelabelKey(k, f), DOMAIN RelabelKey(k, f))))),
            Sqrt(FromInt(FactorialsOf(k, DOMAIN k))))]

\* C25: State::collapse(template) maps the old label j to the label of the
\* j-th entry of template in sorted (spatial mode, label) order and applies
\* the map to every term; terms that end with the same key are held once,
\* with the sum of their rescaled amplitudes; the number of terms does not
\* increase.
C25_CollapseByTemplate ==
    StateCollapseCase =>
        /\ DOMAIN S = {RelabelKey(k, LabelMapOf(Last.arg[1])) : k \in DOMAIN Last.pre.S}
        /\ \A n \in DOMAIN S :
              S[n] = SumAmps(Rescaled(Last.pre.S, LabelMapOf(Last.arg[1])),
                             {k \in DOMAIN Last.pre.S :
                                 RelabelKey(k, LabelMapOf(Last.arg[1])) = n})
        /\ Cardinality(DOMAIN S) <= Cardinality(DOMAIN Last.pre.S)

\* two terms that differ in their labels only end as one key, the sum of the
\* rescaled amplitudes not being either of them
C25_Witness ==
    /\ StateCollapseCase
    /\ Cardinality(DOMAIN Last.pre.S) = 2
    /\ Cardinality(DOMAIN S) = 1
    /\ \A n \in DOMAIN S : \A k \in DOMAIN Last.pre.S : S[n] # Last.pre.S[k] /\ S[n] # Zero

\* the template has fewer entries than some label used in the state
MissingLabelCase ==
    /\ HasLast
    /\ Last.op = "collapse"
    /\ \E k \in DOMAIN Last.pre.S : \E p \in DOMAIN k :
          p[2] >= Cardinality(DOMAIN Last.arg[1])

\* C26: State::collapse with a template key that has fewer entries than some
\* label used in the state fails with an error, and the key-to-amplitude map
\* of the state is exactly as it was before the call.
C26_MissingLabelFails ==
    MissingLabelCase => out.res = "out_of_range" /\ S = Last.pre.S

\* the exception met at the second term, after a first term that was
\* relabelled into the local map
C26_Witness ==
    /\ MissingLabelCase
    /\ out.res = "out_of_range"
    /\ Cardinality(DOMAIN Last.pre.S) = 2
    /\ TermsBeforeThrow(Terms(Last.pre.S), TemplateMap(Last.arg[1])) # <<>>
    /\ S = Last.pre.S

\* the photons of the key k, over all its entries
TotalOf(k) == SumOver(k, DOMAIN k)

\* C27: after any sequence of addPhoton, two-mode apply, swap and loss calls
\* from the empty state, every key of the state has a total occupation, the
\* environment modes included, equal to the sum of the count arguments of
\* the addPhoton calls made so far.
C27_PhotonNumber == \A k \in DOMAIN S : TotalOf(k) = added

\* the keys of the pre-state have positive occupations only, its amplitudes exceed tol
CleanPre ==
    /\ \A k \in DOMAIN Last.pre.S : \A p \in DOMAIN k : k[p] > 0
    /\ Pruned(Last.pre.S)

SwapCase == HasLast /\ Last.op = "swap" /\ CleanPre

ExchangeCase == HasLast /\ Last.op = "apply" /\ Last.arg[1] = Exchange /\ CleanPre

\* the mode pair p with the spatial modes a and b exchanged
Flip(p, a, b) == <<IF p[1] = a THEN b ELSE IF p[1] = b THEN a ELSE p[1], p[2]>>

\* the key k with the occupations at (a,d) and (b,d) exchanged for every label d
Exchanged(k, a, b) == [p \in {Flip(q, a, b) : q \in DOMAIN k} |-> k[Flip(p, a, b)]]

\* the state M with every key exchanged and every amplitude kept
ExchangedState(M, a, b) ==
    [n \in {Exchanged(k, a, b) : k \in DOMAIN M} |-> M[Exchanged(n, a, b)]]

\* C28: State::swap(a,b) and State::apply with U = [0,1,1,0] on {a,b} are
\* equivalent on a state whose keys have positive occupations only and whose
\* amplitudes exceed the tolerance: both give each key with the occupations
\* at (a,d) and (b,d) exchanged for every label d, all other entries and the
\* amplitude unchanged.
C28_SwapIsExchange ==
    /\ SwapCase =>
          /\ S = ExchangedState(Last.pre.S, Last.arg[1], Last.arg[2])
          /\ S = StateApply(Last.pre.S, Exchange, <<Last.arg[1], Last.arg[2]>>)
    /\ ExchangeCase =>
          /\ S = ExchangedState(Last.pre.S, Last.arg[2], Last.arg[3])
          /\ S = StateSwap(Last.pre.S, Last.arg[2], Last.arg[3])

\* a swap of a state of several terms, with a key occupied at both modes
\* under different occupations, which the swap changes
C28_Witness ==
    /\ SwapCase
    /\ Cardinality(DOMAIN Last.pre.S) >= 2
    /\ S # Last.pre.S
    /\ \E k \in DOMAIN Last.pre.S :
          Occ(k, Last.arg[1]) > 0 /\ Occ(k, Last.arg[2]) > 0
    /\ S = StateApply(Last.pre.S, Exchange, <<Last.arg[1], Last.arg[2]>>)

\* the loss-mode floor of the pre-state exceeds every spatial mode in its keys
FloorAbovePre ==
    \A k \in DOMAIN Last.pre.S : \A p \in DOMAIN k : p[1] < Last.pre.lossMode

LossAboveFloorCase == HasLast /\ Last.op = "loss" /\ FloorAbovePre

\* the keys Key::loss gives for the term k of the pre-state
BranchKeys(k) == DOMAIN KeyLoss(k, LossModes, Last.pre.lossMode, 0).R

\* C29: State::loss preserves the norm of a state whose loss-mode floor
\* exceeds every spatial mode present in its keys: distinct input terms never
\* give the same output key, and the sum of the squared amplitude magnitudes
\* after loss(modes) is the sum before.
C29_LossKeepsNorm ==
    LossAboveFloorCase =>
        /\ \A k \in DOMAIN Last.pre.S, l \in DOMAIN Last.pre.S :
              k # l => BranchKeys(k) \cap BranchKeys(l) = {}
        /\ NormSq(S) = NormSq(Last.pre.S)

\* two terms that each lose a photon from one of two places: four output
\* terms of non-zero amplitude
C29_Witness ==
    /\ LossAboveFloorCase
    /\ Cardinality(DOMAIN Last.pre.S) >= 2
    /\ \A k \in DOMAIN Last.pre.S : Cardinality(BranchKeys(k)) >= 2 /\ Last.pre.S[k] # Zero
    /\ Cardinality(DOMAIN S) >= 4
    /\ NormSq(S) = NormSq(Last.pre.S)

\* addPhoton was called on a State without terms
RefillCase == HasLast /\ Last.op = "addPhoton" /\ DOMAIN Last.pre.S = {}

\* the index in waves at which the call stored its descriptor
StoredAt == Len(Last.pre.waves)

\* the labels of the photons in the terms of S
LabelsIn(M) == {p[2] : p \in UNION {{q \in DOMAIN k : k[q] > 0} : k \in DOMAIN M}}

\* C30: when addPhoton is called on a State that has no terms, the label of the
\* photon it puts in is the index in waves at which the call stores the
\* descriptor, also when waves already holds descriptors of terms that were removed
C30_LabelIsIndex ==
    RefillCase =>
        /\ waves = Append(Last.pre.waves, Last.arg[1])
        /\ LabelsIn(S) = {StoredAt}

=============================================================================
